---- MODULE Spec2Model ----
(***************************************************************************)
(* Model of the SNTP client of mqboard (src/blinky/mpy-lib/sntp.py): the   *)
(* time-domain converter ntp2mp / mp2ntp, the exchange SNTP._poll, the     *)
(* poll loop SNTP._poller and the lifecycle calls SNTP.start / SNTP.stop.  *)
(*                                                                         *)
(* Number representation.  The program computes with unbounded Python      *)
(* integers: microsecond counts around 10^15 and 32-bit wire fields.  The  *)
(* model checker's integers are 32 bits wide, so                           *)
(*   - a microsecond count v is held as the pair [s, u] = divmod(v, 10^6), *)
(*     that is v = s * 10^6 + u with 0 <= u < 10^6;                        *)
(*   - a 32-bit wire field is held as two 16-bit limbs (hi, lo), which is  *)
(*     also the big-endian layout struct.pack_into("!II") writes.          *)
(* Every operator below computes exactly the value the Python expression   *)
(* computes, in that representation.                                       *)
(***************************************************************************)
EXTENDS Integers, Sequences, FiniteSets, TLC

----------------------------------------------------------------------------
(* Program constants *)

TZ == 1
MICRO == 1000000
SECS_PER_HOUR == 3600
NTP_DELTA_HI == 48151      \* NTP_DELTA = 3155673600 = 48151 * 2^16 + 49664
NTP_DELTA_LO == 49664
MIN_ADJUST == 500000       \* the literal of "abs(step_us) < 500000"
WAIT_TIMEOUT == 1          \* seconds, wait_for(..., timeout=1)
SLEEP_OK == 61
SLEEP_RETRY == 11
SLEEP_ERROR == 121
REPLY_LEN == 48
OFF_ORIG == 24
OFF_RX == 32
OFF_TX == 40
STATUS_MASK == 65535       \* 0xFFFF
FAIL_MASK == 7             \* 0x7
ESCALATE == 3              \* "Three failures in a row"
MAX_POLL == 1024
None == 0                  \* the value of an attribute that holds None
STARTS == 1                \* the module's start() calls ss.start() once

Limb == 2^16               \* one 16-bit half of a 32-bit wire field
FracDen == 15625           \* 10^6 / 2^32 = 15625 / 2^26
FracHalf == 2^13
FracTop == 2^10

----------------------------------------------------------------------------
(* Bounds of the model *)

MaxTicks == 1              \* ticks after which the true time stops advancing
MaxTasks == 2              \* task slots of the event loop
UtcBase == 847000000       \* true time at the start, seconds since 2000-01-01
ConvSpan == 40             \* width of the microsecond ranges of the converter check
PfSpan == 2                \* the formula check takes timestamps 0 .. PfSpan too

----------------------------------------------------------------------------
(* Arithmetic on microsecond counts [s, u] *)

Us(s, u) == [s |-> s, u |-> u]

UsNorm(s, u) == [s |-> s + (u \div MICRO), u |-> u % MICRO]

UsAdd(a, b) == UsNorm(a.s + b.s, a.u + b.u)

UsNeg(a) == UsNorm(0 - a.s, 0 - a.u)

UsSub(a, b) == UsAdd(a, UsNeg(b))

UsLess(a, b) == a.s < b.s \/ (a.s = b.s /\ a.u < b.u)

UsAbs(a) == IF a.s < 0 THEN UsNeg(a) ELSE a

\* v / 2 rounded toward zero, as C's division of integers does
UsHalfTrunc(a) ==
    LET h(b) == Us(b.s \div 2, ((b.s % 2) * MICRO + b.u) \div 2)
    IN  IF a.s < 0 THEN UsNeg(h(UsNeg(a))) ELSE h(a)

\* v // 2 of Python: the floor of the half
UsHalf(a) == Us(a.s \div 2, ((a.s % 2) * MICRO + a.u) \div 2)

\* int(n) microseconds as a count, for 0 <= n
UsOf(n) == UsNorm(0, n)

TZ_US == Us(TZ * SECS_PER_HOUR, 0)

----------------------------------------------------------------------------
(* Time-domain converter *)

\* (usecs << 32) // 1000000 for 0 <= usecs < 10^6, as limbs (hi, lo).
\* usecs * 2^32 / 10^6 = usecs * 2^26 / 15625; with usecs = 15625 q + r the
\* value is q * 2^26 + floor(r * 2^26 / 15625), and the floor is taken in two
\* steps of 2^13 so that no intermediate exceeds 31 bits.
FracOf(usecs) ==
    LET q  == usecs \div FracDen
        r  == usecs % FracDen
        a  == r * FracHalf
        g  == (a \div FracDen) * FracHalf + ((a % FracDen) * FracHalf) \div FracDen
    IN  <<q * FracTop + (g \div Limb), g % Limb>>

\* (frac * 1000000) >> 32 for a 32-bit frac given as limbs.
\* frac = A * 2^26 + B; the value is A * 15625 + floor(B * 15625 / 2^26).
UsecOf(fh, fl) ==
    LET A  == fh \div FracTop
        B  == (fh % FracTop) * Limb + fl
        c  == (B \div FracHalf) * FracDen
        d  == (B % FracHalf) * FracDen
    IN  A * FracDen + ((c + (d \div FracHalf)) \div FracHalf)

\* secs + NTP_DELTA as limbs <<hi, lo>>; hi is not reduced (Python integer)
SecsPlusDelta(secs) ==
    LET t == (secs % Limb) + NTP_DELTA_LO
    IN  <<(secs \div Limb) + NTP_DELTA_HI + (t \div Limb), t % Limb>>

\* secs - NTP_DELTA for secs given as limbs
SecsMinusDelta(sh, sl) == (sh - NTP_DELTA_HI) * Limb + (sl - NTP_DELTA_LO)

\* A wire timestamp (secs, frac): sh, sl the limbs of secs, fh, fl of frac
Stamp(sh, sl, fh, fl) == [sh |-> sh, sl |-> sl, fh |-> fh, fl |-> fl]

ZeroStamp == Stamp(0, 0, 0, 0)

\* mp2ntp taking the microseconds for a binary fraction of 2^20 parts:
\* frac = usecs << 12
mp2ntpShift(usecs) ==
    LET sec == SecsPlusDelta(usecs.s)
    IN  Stamp(sec[1], sec[2], usecs.u \div 16, (usecs.u % 16) * 4096)

mp2ntp(usecs) ==
    LET sec == SecsPlusDelta(usecs.s)
        f   == FracOf(usecs.u)
    IN  Stamp(sec[1], sec[2], f[1], f[2])

ntp2mp(w) == UsNorm(SecsMinusDelta(w.sh, w.sl), UsecOf(w.fh, w.fl))

\* struct.pack_into("!II", ...): each field is stored in 32 bits
Pack(w) == Stamp(w.sh % Limb, w.sl, w.fh % Limb, w.fl)

----------------------------------------------------------------------------
(* State *)

VARIABLES
    \* attributes of the SNTP object
    _sock,        \* None or the id of the socket created at line 83
    _addr,        \* "None" or the resolved address
    _send,        \* None or the id of the socket whose stream write_drain writes
    _recv,        \* None or the id of the socket whose stream is read
    _close,       \* None or installed (the id of the socket it was created with)
    _req_poll,    \* the configured poll interval
    _max_step,    \* microseconds
    _poll_task,   \* None or the id of the task start() created last
    _status,      \* attribute _status (line 164)
    status,       \* attribute status (lines 168, 186)
    sock,         \* attribute sock (lines 193, 198): "unset" or "None"
    \* operating system and event loop
    nsock,        \* number of sockets created so far
    closed,       \* ids of the sockets that have been closed
    tick,         \* ticks of true time elapsed
    clock,        \* the device clock, what time.time() reads, in microseconds
    \* one poller task per start(): its position and its locals
    pc,           \* "none", "new", "send", "recv", "sleep", "loop", "dead"
    send_us,
    send_ntp,
    rbuf,         \* the datagram read last in this round: its length, its
                  \* originate field and, of a reply that is unpacked whole,
                  \* its receive and transmit fields
    res,          \* (delay_us, step_us) of this round, once computed
    timer,        \* ticks since the pending wait_for began
    sleepFor,     \* argument of the pending asyncio.sleep
    \* the stop() call in progress
    stopper,      \* "idle" or "awaiting" (suspended at line 71)
    \* history, read by the properties only
    starts,       \* calls of start() so far
    stopRes,      \* how the last stop() since the last start() ended:
                  \* "none", "returned", "raised"
    outcome,      \* how the task's last round ended
    timeouts,     \* consecutive rounds ended by TimeoutError, up to 3
    sinceOk,      \* rounds ended since the last success: 0, 1, 2, or 3 for
                  \* more than two or no success at all
    sent_at,      \* the tick at which the request of this round was built
    resolved,     \* this round called getaddrinfo
    wrote,        \* RTC writes of this round
    waited,       \* ticks since the request of this round was sent
    cancelledAt,  \* the position at which the task was cancelled, or "-"
    prevWrote,    \* the round before this one wrote the RTC
    \* the converter applied on its own
    cv_pc,        \* "off", "in", "wire", "back"
    cv_x,         \* a local microsecond count
    cv_ntp,       \* mp2ntp(cv_x)
    cv_back,      \* ntp2mp(*cv_ntp)
    \* lines 153-154 applied on their own
    pf_pc,        \* "off", "in", "out"
    pf_in,        \* send_us, recv_us, rx_us, tx_us in microseconds
    pf_out        \* (delay, step) in microseconds

attrs == <<_sock, _addr, _send, _recv, _close, _req_poll, _max_step, _poll_task,
           _status, status, sock>>
session == <<_sock, _addr, _send, _recv, _close>>
os == <<nsock, closed>>
time == <<tick, clock>>
frame == <<pc, send_us, send_ntp, rbuf, res, timer, sleepFor>>
life == <<stopper, starts, stopRes>>
hist == <<outcome, timeouts, sinceOk, sent_at, resolved, wrote, waited, cancelledAt, prevWrote>>
cv == <<cv_pc, cv_x, cv_ntp, cv_back>>
pf == <<pf_pc, pf_in, pf_out>>
vars == <<attrs, os, time, frame, life, hist, cv, pf>>

Tasks == 1 .. MaxTasks

NoUs == Us(0, 0)
NoBuf == [len |-> 0, orig |-> ZeroStamp, rx |-> ZeroStamp, tx |-> ZeroStamp]
NoRes == [ok |-> FALSE, delay |-> NoUs, step |-> NoUs]
NoIn == [send |-> 0, recv |-> 0, rx |-> 0, tx |-> 0]
NoOut == [delay |-> 0, step |-> 0]

\* Time passes in steps of the shortest interval the program tells apart,
\* the half second of line 177; the receive time-out of line 106 in steps
TickUs == MIN_ADJUST
TimeoutTicks == (WAIT_TIMEOUT * MICRO) \div TickUs

\* max_step of the constructor, already as int(max_step * 1000000):
\* max_step = 0.25 and the default max_step = 1
MaxSteps == {Us(0, 250000), Us(1, 0)}

\* What the server's clock shows minus the true time, one value per reply
Skews == {Us(0 - 2, 0), Us(0 - 1, 500000), Us(0, 0), Us(0, 400000)}

\* Lengths of the datagrams the network delivers: too short for the originate
\* field, too short for the transmit field, complete
Lens == {OFF_ORIG, OFF_TX, REPLY_LEN}

\* The true time after n ticks
UtcAt(n) == UsNorm(UtcBase, n * TickUs)

\* time_us(): int(time.time() * 1000000).  time.time() of MicroPython on the
\* board this module runs on (it imports machine and sets machine.RTC)
\* returns the whole seconds as an integer, so the value is a multiple of
\* 10^6 although the clock behind it counts microseconds.
time_us == Us(clock.s, 0)

EngineInit ==
    /\ _sock = None /\ _addr = "None"
    /\ _send = None /\ _recv = None /\ _close = None
    /\ _req_poll = MAX_POLL
    /\ _max_step \in MaxSteps
    /\ _poll_task = None
    \* _status and status do not exist before the poller runs; each read of
    \* one is preceded by a write in the same step, so the value is never seen
    /\ _status = 0 /\ status = 0
    /\ sock = "unset"
    /\ nsock = 0 /\ closed = {}
    /\ tick = 0
    /\ clock = UsAdd(UsNorm(UtcBase, 0), TZ_US)
    /\ pc = [t \in Tasks |-> "none"]
    /\ send_us = [t \in Tasks |-> NoUs]
    /\ send_ntp = [t \in Tasks |-> ZeroStamp]
    /\ rbuf = [t \in Tasks |-> NoBuf]
    /\ res = [t \in Tasks |-> NoRes]
    /\ timer = [t \in Tasks |-> 0]
    /\ sleepFor = [t \in Tasks |-> 0]
    /\ stopper = "idle"
    /\ starts = 0
    /\ stopRes = "none"
    /\ outcome = [t \in Tasks |-> "none"]
    /\ timeouts = 0
    /\ sinceOk = ESCALATE
    /\ sent_at = [t \in Tasks |-> 0]
    /\ resolved = [t \in Tasks |-> FALSE]
    /\ wrote = [t \in Tasks |-> 0]
    /\ waited = [t \in Tasks |-> 0]
    /\ cancelledAt = [t \in Tasks |-> "-"]
    /\ prevWrote = FALSE

Init ==
    /\ EngineInit
    /\ cv_pc = "off" /\ cv_x = NoUs /\ cv_ntp = ZeroStamp /\ cv_back = NoUs
    /\ pf_pc = "off" /\ pf_in = NoIn /\ pf_out = NoOut

----------------------------------------------------------------------------
(* SNTP.start *)

\* Line 65, called as the module's start() calls it (line 213)
start ==
    /\ starts < STARTS
    /\ starts' = starts + 1
    /\ stopRes' = "none"
    /\ _poll_task' = starts + 1
    /\ pc' = [pc EXCEPT ![starts + 1] = "new"]
    /\ UNCHANGED <<session, _req_poll, _max_step, _status, status, sock>>
    /\ UNCHANGED <<os, time, hist, stopper, cv, pf>>
    /\ UNCHANGED <<send_us, send_ntp, rbuf, res, timer, sleepFor>>

----------------------------------------------------------------------------
(* SNTP._poller: the exception handlers *)

Min(a, b) == IF a < b THEN a ELSE b

\* (self._status << 1) & 0xFFFF
ShiftStatus(st) == (st * 2) % (STATUS_MASK + 1)

\* self.status |= 1
MarkStatus(st) == IF st % 2 = 0 THEN st + 1 ELSE st

\* (self._status & 0x7) == 0
ThreeFailures(st) == st % (FAIL_MASK + 1) = 0

\* The round of task t ends and the task suspends in asyncio.sleep(secs)
EndRound(t, how, secs) ==
    /\ pc' = [pc EXCEPT ![t] = "sleep"]
    /\ sleepFor' = [sleepFor EXCEPT ![t] = secs]
    /\ outcome' = [outcome EXCEPT ![t] = how]
    /\ timeouts' = IF how = "timeout" THEN Min(timeouts + 1, ESCALATE) ELSE 0
    /\ sinceOk' = IF how = "ok" THEN 0 ELSE Min(sinceOk + 1, ESCALATE)

\* except asyncio.TimeoutError: the sleep is part of the "if", so when the
\* test fails the loop goes on to the next round without a suspension
\* (position "loop")
OnTimeoutError(t) ==
    IF ThreeFailures(_status)
    THEN /\ sock' = "None"
         /\ EndRound(t, "timeout", SLEEP_RETRY)
    ELSE /\ sock' = sock
         /\ pc' = [pc EXCEPT ![t] = "loop"]
         /\ sleepFor' = [sleepFor EXCEPT ![t] = 0]
         /\ outcome' = [outcome EXCEPT ![t] = "timeout"]
         /\ timeouts' = Min(timeouts + 1, ESCALATE)
         /\ sinceOk' = Min(sinceOk + 1, ESCALATE)

\* except OSError
OnOSError(t, how) ==
    /\ sock' = "None"
    /\ EndRound(t, how, SLEEP_RETRY)

\* an exception that ends the task instead of being handled
OnExceptionFatal(t, how) ==
    /\ sock' = sock
    /\ pc' = [pc EXCEPT ![t] = "dead"]
    /\ sleepFor' = sleepFor
    /\ outcome' = [outcome EXCEPT ![t] = how]
    /\ timeouts' = timeouts
    /\ sinceOk' = sinceOk

\* except Exception
OnException(t, how) ==
    /\ sock' = sock
    /\ EndRound(t, how, SLEEP_ERROR)

----------------------------------------------------------------------------
(* SNTP._poller and SNTP._poll: from the top of the loop to the first      *)
(* suspension.  Nothing between line 164 / 168 and the await of line 89    *)
(* suspends, so each path is one step.                                     *)

\* Lines 164 and 168, and the locals of the round that begins
BeginRound(t) ==
    /\ pc[t] \in {"new", "sleep", "loop"}
    /\ _status' = IF pc[t] = "new" THEN 0 ELSE _status
    /\ status' = ShiftStatus(_status')
    /\ rbuf' = [rbuf EXCEPT ![t] = NoBuf]
    /\ res' = [res EXCEPT ![t] = NoRes]
    /\ timer' = [timer EXCEPT ![t] = 0]
    /\ wrote' = [wrote EXCEPT ![t] = 0]
    /\ prevWrote' = (wrote[t] > 0)
    /\ waited' = [waited EXCEPT ![t] = 0]
    /\ sent_at' = [sent_at EXCEPT ![t] = tick]
    /\ UNCHANGED <<_req_poll, _max_step, _poll_task, closed, time, life, cancelledAt, cv, pf>>

\* Lines 96-100 and the call of write_drain up to "await stream.drain()"
BuildAndSend(t) ==
    LET us == UsSub(time_us, TZ_US)
    IN  /\ send_us' = [send_us EXCEPT ![t] = us]
        /\ send_ntp' = [send_ntp EXCEPT ![t] = mp2ntp(us)]
        /\ pc' = [pc EXCEPT ![t] = "send"]
        /\ UNCHANGED <<sleepFor, outcome, timeouts, sinceOk, sock>>

\* getaddrinfo raises OSError, the socket having been created before the
\* name is resolved (line 83 ahead of line 81)
RoundResolveFailsLate(t) ==
    /\ BeginRound(t)
    /\ _sock = None
    /\ resolved' = [resolved EXCEPT ![t] = TRUE]
    /\ nsock' = nsock + 1
    /\ _sock' = nsock + 1
    /\ OnOSError(t, "resolve")
    /\ UNCHANGED <<_addr, _send, _recv, _close, send_us, send_ntp>>

\* getaddrinfo raises OSError
RoundResolveFails(t) ==
    /\ BeginRound(t)
    /\ _sock = None
    /\ resolved' = [resolved EXCEPT ![t] = TRUE]
    /\ OnOSError(t, "resolve")
    /\ UNCHANGED <<session, nsock, send_us, send_ntp>>

\* socket.socket raises OSError
RoundSocketFails(t) ==
    /\ BeginRound(t)
    /\ _sock = None
    /\ resolved' = [resolved EXCEPT ![t] = TRUE]
    /\ _addr' = "addr"
    /\ OnOSError(t, "socket")
    /\ UNCHANGED <<_sock, _send, _recv, _close, nsock, send_us, send_ntp>>

\* connect raises OSError: _sock is set, _send, _recv and _close are not
RoundConnectFails(t) ==
    /\ BeginRound(t)
    /\ _sock = None
    /\ resolved' = [resolved EXCEPT ![t] = TRUE]
    /\ _addr' = "addr"
    /\ nsock' = nsock + 1
    /\ _sock' = nsock + 1
    /\ OnOSError(t, "connect")
    /\ UNCHANGED <<_send, _recv, _close, send_us, send_ntp>>

\* Lines 80-93 succeed, then the request is built and handed to the stream
RoundOpens(t) ==
    /\ BeginRound(t)
    /\ _sock = None
    /\ resolved' = [resolved EXCEPT ![t] = TRUE]
    /\ _addr' = "addr"
    /\ nsock' = nsock + 1
    /\ _sock' = nsock + 1
    /\ _send' = nsock + 1 /\ _recv' = nsock + 1 /\ _close' = nsock + 1
    /\ BuildAndSend(t)

\* _sock is set and the session is installed: lines 80-93 are skipped
RoundReuses(t) ==
    /\ BeginRound(t)
    /\ _sock # None
    /\ _send # None
    /\ resolved' = [resolved EXCEPT ![t] = FALSE]
    /\ BuildAndSend(t)
    /\ UNCHANGED <<session, nsock>>

\* _sock is set but _send is None: "await self._send(wbuf)" raises TypeError
RoundNoSend(t) ==
    /\ BeginRound(t)
    /\ _sock # None
    /\ _send = None
    /\ resolved' = [resolved EXCEPT ![t] = FALSE]
    /\ send_us' = [send_us EXCEPT ![t] = UsSub(time_us, TZ_US)]
    /\ send_ntp' = [send_ntp EXCEPT ![t] = mp2ntp(send_us'[t])]
    /\ OnException(t, "nosend")
    /\ UNCHANGED <<session, nsock>>

----------------------------------------------------------------------------
(* SNTP._poll: the send completes *)

\* stream.drain() returns; the loop of line 104 starts the first wait_for
SendDone(t) ==
    /\ pc[t] = "send"
    /\ _send \notin closed
    /\ pc' = [pc EXCEPT ![t] = "recv"]
    /\ timer' = [timer EXCEPT ![t] = 0]
    /\ waited' = [waited EXCEPT ![t] = 0]
    /\ UNCHANGED <<attrs, os, time, life, cv, pf>>
    /\ UNCHANGED <<send_us, send_ntp, rbuf, res, sleepFor>>
    /\ UNCHANGED <<outcome, timeouts, sinceOk, sent_at, resolved, wrote, cancelledAt, prevWrote>>

\* stream.drain() raises OSError (the socket is closed, the network is down)
SendFails(t) ==
    /\ pc[t] = "send"
    /\ OnOSError(t, "send")
    /\ UNCHANGED <<session, _req_poll, _max_step, _poll_task, _status, status>>
    /\ UNCHANGED <<os, time, life, cv, pf>>
    /\ UNCHANGED <<send_us, send_ntp, rbuf, res, timer>>
    /\ UNCHANGED <<sent_at, resolved, wrote, waited, cancelledAt, prevWrote>>

----------------------------------------------------------------------------
(* SNTP._poll: the receive loop, lines 104-110, and what follows a match   *)

\* struct.unpack_from("!II", rbuf, off) needs 8 bytes at off
CanUnpack(len, off) == off + 8 <= len

\* orig_ntp == send_ntp, comparing the seconds only
OrigMatchesSecs(orig_ntp, sent_ntp) ==
    orig_ntp.sh = sent_ntp.sh /\ orig_ntp.sl = sent_ntp.sl

\* orig_ntp == send_ntp
OrigMatches(orig_ntp, sent_ntp) == orig_ntp = sent_ntp

\* Lines 153-154 on microsecond counts
DelayStep(sendus, recvus, rx_us, tx_us) ==
    [ok    |-> TRUE,
     delay |-> UsSub(UsSub(recvus, sendus), UsSub(tx_us, rx_us)),
     step  |-> UsHalf(UsAdd(UsSub(rx_us, sendus), UsSub(tx_us, recvus)))]

\* Lines 151-154
PollResult(sendus, recvus, rx_ntp, tx_ntp) ==
    DelayStep(sendus, recvus, ntp2mp(rx_ntp), ntp2mp(tx_ntp))

\* The decision of lines 170-184 with the second test "<=" instead of "<"
NeedsWriteLe(step_us, max_step) ==
    \/ UsLess(max_step, step_us)
    \/ UsLess(max_step, UsNeg(step_us))
    \/ UsLess(UsOf(MIN_ADJUST), UsAbs(step_us))

\* The decision of lines 170-184: is the RTC written
NeedsWrite(step_us, max_step) ==
    \/ UsLess(max_step, step_us)
    \/ UsLess(max_step, UsNeg(step_us))
    \/ ~ UsLess(UsAbs(step_us), UsOf(MIN_ADJUST))

\* Lines 172-174 and 182-184: divmod(time_us() + step_us, 1000000), the
\* calendar tuple of it, machine.RTC().init; the clock then reads the target
RtcTarget(step_us) == UsAdd(time_us, step_us)

\* asyncio.sleep(self._req_poll) after a success
SuccessSleepPoll == _req_poll

\* Line 187
SuccessSleep == SLEEP_OK

\* A wire timestamp that differs from w in the lowest bit of the fraction
Bump(w) == [w EXCEPT !.fl = (@ + 1) % Limb]

\* Originate fields of the datagrams that can arrive for task t: the echo of
\* its request, a stamp one bit off, the echo of another task's request
Origs(t) ==
    {Pack(send_ntp[t]), Bump(Pack(send_ntp[t]))}
        \cup {Pack(send_ntp[o]) : o \in {x \in Tasks : pc[x] = "recv"}}

\* The timestamp a server writes at tick n when its clock is k off the true time
ServerStamp(n, k) == mp2ntp(UsAdd(UtcAt(n), k))

\* A datagram as the model keeps it
Dgram(len, orig, rx_ntp, tx_ntp) ==
    [len |-> len, orig |-> orig, rx |-> rx_ntp, tx |-> tx_ntp]

RecvFrame(t) ==
    /\ pc[t] = "recv"
    /\ _recv \notin closed
    /\ timer[t] < TimeoutTicks
    /\ UNCHANGED <<session, _req_poll, _max_step, _poll_task, _status>>
    /\ UNCHANGED <<os, tick, life, cv, pf, send_us, send_ntp>>
    /\ UNCHANGED <<sent_at, resolved, waited, cancelledAt, prevWrote>>

\* A datagram whose fields cannot be unpacked: struct raises ValueError
RecvMalformed(t, len, orig) ==
    /\ RecvFrame(t)
    /\ \/ ~ CanUnpack(len, OFF_ORIG)
       \/ /\ OrigMatches(orig, send_ntp[t])
          /\ ~ (CanUnpack(len, OFF_RX) /\ CanUnpack(len, OFF_TX))
    /\ rbuf' = [rbuf EXCEPT ![t] = Dgram(len, orig, ZeroStamp, ZeroStamp)]
    /\ OnException(t, "malformed")
    /\ UNCHANGED <<status, clock, res, timer, wrote>>

\* The originate field differs: back to line 106 with a new wait_for
RecvDiscard(t, len, orig) ==
    /\ RecvFrame(t)
    /\ CanUnpack(len, OFF_ORIG)
    /\ ~ OrigMatches(orig, send_ntp[t])
    /\ rbuf' = [rbuf EXCEPT ![t] = Dgram(len, orig, ZeroStamp, ZeroStamp)]
    /\ timer' = [timer EXCEPT ![t] = 0]
    /\ UNCHANGED <<status, sock, clock, pc, res, sleepFor, outcome, timeouts, wrote>>
    /\ UNCHANGED sinceOk

\* A match: lines 151-161, then lines 170-187
RecvAccept(t, orig, k) ==
    LET r == PollResult(send_us[t], UsSub(time_us, TZ_US),
                        ServerStamp(sent_at[t], k), ServerStamp(tick, k))
        w == NeedsWrite(r.step, _max_step)
    IN  /\ RecvFrame(t)
        /\ OrigMatches(orig, send_ntp[t])
        /\ rbuf' = [rbuf EXCEPT ![t] =
                        Dgram(REPLY_LEN, orig, ServerStamp(sent_at[t], k),
                              ServerStamp(tick, k))]
        /\ res' = [res EXCEPT ![t] = r]
        /\ clock' = IF w THEN RtcTarget(r.step) ELSE clock
        /\ wrote' = [wrote EXCEPT ![t] = IF w THEN @ + 1 ELSE @]
        /\ status' = MarkStatus(status)
        /\ sock' = sock
        /\ EndRound(t, "ok", SuccessSleep)
        /\ UNCHANGED timer

\* A match, and an exception is raised after machine.RTC().init has set
\* the clock
RecvAcceptRtcWrites(t, orig, k) ==
    LET r == PollResult(send_us[t], UsSub(time_us, TZ_US),
                        ServerStamp(sent_at[t], k), ServerStamp(tick, k))
    IN  /\ RecvFrame(t)
        /\ OrigMatches(orig, send_ntp[t])
        /\ NeedsWrite(r.step, _max_step)
        /\ rbuf' = [rbuf EXCEPT ![t] =
                        Dgram(REPLY_LEN, orig, ServerStamp(sent_at[t], k),
                              ServerStamp(tick, k))]
        /\ res' = [res EXCEPT ![t] = r]
        /\ clock' = RtcTarget(r.step)
        /\ wrote' = [wrote EXCEPT ![t] = @ + 1]
        /\ OnException(t, "rtc")
        /\ UNCHANGED <<status, timer>>

\* A match, and time.localtime or machine.RTC().init raises
RecvAcceptRtcRaises(t, orig, k) ==
    LET r == PollResult(send_us[t], UsSub(time_us, TZ_US),
                        ServerStamp(sent_at[t], k), ServerStamp(tick, k))
    IN  /\ RecvFrame(t)
        /\ OrigMatches(orig, send_ntp[t])
        /\ NeedsWrite(r.step, _max_step)
        /\ rbuf' = [rbuf EXCEPT ![t] =
                        Dgram(REPLY_LEN, orig, ServerStamp(sent_at[t], k),
                              ServerStamp(tick, k))]
        /\ res' = [res EXCEPT ![t] = r]
        /\ OnException(t, "rtc")
        /\ UNCHANGED <<status, clock, timer, wrote>>

\* stream.read raises OSError
RecvFails(t) ==
    /\ pc[t] = "recv"
    /\ OnOSError(t, "recv")
    /\ UNCHANGED <<session, _req_poll, _max_step, _poll_task, _status, status>>
    /\ UNCHANGED <<os, time, life, cv, pf>>
    /\ UNCHANGED <<send_us, send_ntp, rbuf, res, timer>>
    /\ UNCHANGED <<sent_at, resolved, wrote, waited, cancelledAt, prevWrote>>

\* wait_for raises asyncio.TimeoutError and the handler drops the socket:
\* "self._sock = None" at line 193
RecvTimeoutResets(t) ==
    /\ pc[t] = "recv"
    /\ timer[t] = TimeoutTicks
    /\ OnTimeoutError(t)
    /\ _sock' = None
    /\ UNCHANGED <<_addr, _send, _recv, _close>>
    /\ UNCHANGED <<_req_poll, _max_step, _poll_task, _status, status>>
    /\ UNCHANGED <<os, time, life, cv, pf>>
    /\ UNCHANGED <<send_us, send_ntp, rbuf, res, timer>>
    /\ UNCHANGED <<sent_at, resolved, wrote, waited, cancelledAt, prevWrote>>

\* wait_for raises asyncio.TimeoutError
RecvTimeout(t) ==
    /\ pc[t] = "recv"
    /\ timer[t] = TimeoutTicks
    /\ OnTimeoutError(t)
    /\ UNCHANGED <<session, _req_poll, _max_step, _poll_task, _status, status>>
    /\ UNCHANGED <<os, time, life, cv, pf>>
    /\ UNCHANGED <<send_us, send_ntp, rbuf, res, timer>>
    /\ UNCHANGED <<sent_at, resolved, wrote, waited, cancelledAt, prevWrote>>

\* Time passes; a pending wait_for does not outlive its timeout
Tick ==
    /\ \A t \in Tasks : pc[t] = "recv" => timer[t] < TimeoutTicks
    /\ timer' = [t \in Tasks |-> IF pc[t] = "recv" THEN timer[t] + 1 ELSE timer[t]]
    /\ waited' = [t \in Tasks |->
                    IF pc[t] = "recv" THEN Min(waited[t] + 1, TimeoutTicks + 1)
                    ELSE waited[t]]
    /\ tick' = Min(tick + 1, MaxTicks)
    /\ clock' = IF tick < MaxTicks THEN UsAdd(clock, Us(0, TickUs)) ELSE clock
    /\ UNCHANGED <<attrs, os, life, cv, pf>>
    /\ UNCHANGED <<pc, send_us, send_ntp, rbuf, res, sleepFor>>
    /\ UNCHANGED <<outcome, timeouts, sinceOk, sent_at, resolved, wrote, cancelledAt, prevWrote>>

----------------------------------------------------------------------------
(* SNTP.stop *)

\* self._close() without effect on the socket
CloseNothing(cl, s) == cl

\* self._close(): self._sock.close()
CloseSock(cl, s) == cl \cup {s}

\* task.cancel(): CancelledError is thrown into the task at its suspension.
\* It is a BaseException, no handler of _poller catches it, the task ends
\* and its frame is dropped.
Cancel(t) ==
    /\ pc' = [pc EXCEPT ![t] = "dead"]
    /\ cancelledAt' = [cancelledAt EXCEPT ![t] = pc[t]]
    /\ send_us' = [send_us EXCEPT ![t] = NoUs]
    /\ send_ntp' = [send_ntp EXCEPT ![t] = ZeroStamp]
    /\ rbuf' = [rbuf EXCEPT ![t] = NoBuf]
    /\ res' = [res EXCEPT ![t] = NoRes]
    /\ timer' = [timer EXCEPT ![t] = 0]
    /\ sleepFor' = [sleepFor EXCEPT ![t] = 0]
    /\ outcome' = [outcome EXCEPT ![t] = "none"]
    /\ sent_at' = [sent_at EXCEPT ![t] = 0]
    /\ timeouts' = timeouts
    /\ sinceOk' = sinceOk
    /\ resolved' = [resolved EXCEPT ![t] = FALSE]
    /\ wrote' = [wrote EXCEPT ![t] = 0]
    /\ waited' = [waited EXCEPT ![t] = 0]
    /\ prevWrote' = FALSE

\* stop() with no task registered: line 68 is false
StopIdle ==
    /\ stopper = "idle"
    /\ _poll_task = None
    /\ stopRes' = "returned"
    /\ UNCHANGED <<attrs, os, time, frame, hist, stopper, starts, cv, pf>>

\* Lines 68-71: cancel the task and suspend until it has ended
StopCancel ==
    /\ stopper = "idle"
    /\ _poll_task # None
    /\ pc[_poll_task] # "dead"
    /\ Cancel(_poll_task)
    /\ stopper' = "awaiting"
    /\ UNCHANGED <<attrs, os, time, starts, stopRes, cv, pf>>

\* The await of line 71 is over, or the task had ended before stop() was
\* called and line 71 does not suspend
AfterAwait ==
    \/ stopper = "awaiting"
    \/ stopper = "idle" /\ _poll_task # None /\ pc[_poll_task] = "dead"

\* Lines 74-75
StopCloses ==
    /\ AfterAwait
    /\ _close # None
    /\ closed' = CloseSock(closed, _sock)
    /\ _poll_task' = None
    /\ stopper' = "idle"
    /\ stopRes' = "returned"
    /\ UNCHANGED <<session, _req_poll, _max_step, _status, status, sock>>
    /\ UNCHANGED <<nsock, time, frame, hist, starts, cv, pf>>

\* Line 74 with _close = None: TypeError leaves stop(), line 75 is not reached
StopRaises ==
    /\ AfterAwait
    /\ _close = None
    /\ stopper' = "idle"
    /\ stopRes' = "raised"
    /\ UNCHANGED <<attrs, os, time, frame, hist, starts, cv, pf>>

----------------------------------------------------------------------------
(* The engine *)

Next ==
    \/ start
    \/ StopIdle
    \/ StopCancel
    \/ StopCloses
    \/ StopRaises
    \/ Tick
    \/ \E t \in Tasks : RoundResolveFails(t)
    \/ \E t \in Tasks : RoundSocketFails(t)
    \/ \E t \in Tasks : RoundConnectFails(t)
    \/ \E t \in Tasks : RoundOpens(t)
    \/ \E t \in Tasks : RoundReuses(t)
    \/ \E t \in Tasks : RoundNoSend(t)
    \/ \E t \in Tasks : SendDone(t)
    \/ \E t \in Tasks : SendFails(t)
    \/ \E t \in Tasks : RecvFails(t)
    \/ \E t \in Tasks : RecvTimeout(t)
    \/ \E t \in Tasks : \E len \in Lens, orig \in Origs(t) : RecvMalformed(t, len, orig)
    \/ \E t \in Tasks : \E len \in Lens, orig \in Origs(t) : RecvDiscard(t, len, orig)
    \/ \E t \in Tasks : \E orig \in Origs(t), k \in Skews : RecvAccept(t, orig, k)
    \/ \E t \in Tasks : \E orig \in Origs(t), k \in Skews : RecvAcceptRtcRaises(t, orig, k)

Spec == Init /\ [][Next]_vars

----------------------------------------------------------------------------
(* The engine left running: start() and the poller, and no call of stop(). *)
(* The event loop resumes a task that is ready (weak fairness of the       *)
(* beginning of a round), a send that can complete does complete unless it *)
(* fails (weak fairness of the send), and no wait_for stays pending for    *)
(* ever: it ends with a datagram, with its timeout or with an error.       *)

RunNext ==
    \/ start
    \/ Tick
    \/ \E t \in Tasks : RoundResolveFails(t)
    \/ \E t \in Tasks : RoundSocketFails(t)
    \/ \E t \in Tasks : RoundConnectFails(t)
    \/ \E t \in Tasks : RoundOpens(t)
    \/ \E t \in Tasks : RoundReuses(t)
    \/ \E t \in Tasks : RoundNoSend(t)
    \/ \E t \in Tasks : SendDone(t)
    \/ \E t \in Tasks : SendFails(t)
    \/ \E t \in Tasks : RecvFails(t)
    \/ \E t \in Tasks : RecvTimeout(t)
    \/ \E t \in Tasks : \E len \in Lens, orig \in Origs(t) : RecvMalformed(t, len, orig)
    \/ \E t \in Tasks : \E len \in Lens, orig \in Origs(t) : RecvDiscard(t, len, orig)
    \/ \E t \in Tasks : \E orig \in Origs(t), k \in Skews : RecvAccept(t, orig, k)
    \/ \E t \in Tasks : \E orig \in Origs(t), k \in Skews : RecvAcceptRtcRaises(t, orig, k)

\* The steps of the engine that begin a round and send, whatever the
\* session is like
RoundSends ==
    \E t \in Tasks : RoundOpens(t) \/ RoundReuses(t) \/ RoundNoSend(t)

\* The matching reply is delivered
ReplyArrives ==
    \E t \in Tasks : \E orig \in Origs(t), k \in Skews : RecvAccept(t, orig, k)

RunSpec ==
    /\ Init
    /\ [][RunNext]_vars
    /\ WF_vars(start)
    /\ WF_vars(RoundSends)
    /\ WF_vars(\E t \in Tasks : SendDone(t))
    /\ []<>(\A t \in Tasks : pc[t] # "recv")

\* A step of a network in which resolution, socket creation, connect, send
\* and receive succeed, the server answers every request with the matching
\* reply before the timeout, and the RTC accepts a write
Healthy ==
    \/ start
    \/ RoundSends
    \/ \E t \in Tasks : SendDone(t)
    \/ ReplyArrives
    \/ Tick /\ \A t \in Tasks : pc[t] = "recv" => timer'[t] < TimeoutTicks

----------------------------------------------------------------------------
(* The SNTP object driven by any caller: start() may be called again, with *)
(* or without a stop() in between.  Line 65 creates a task and overwrites  *)
(* _poll_task; it neither looks at nor cancels the task registered before. *)
(* The network of this specification is a healthy and fast one: names     *)
(* resolve, sockets open, datagrams are complete and arrive before time    *)
(* has advanced, and the server's clock is the one of ApiSkew.  Its        *)
(* behaviours are behaviours of the program; it is used to exhibit         *)
(* behaviours, not to exclude any.                                         *)

ApiSkew == Us(2, 0)

start_again ==
    /\ STARTS <= starts
    /\ starts < MaxTasks
    /\ starts' = starts + 1
    /\ stopRes' = "none"
    /\ _poll_task' = starts + 1
    /\ pc' = [pc EXCEPT ![starts + 1] = "new"]
    /\ UNCHANGED <<session, _req_poll, _max_step, _status, status, sock>>
    /\ UNCHANGED <<os, time, hist, stopper, cv, pf>>
    /\ UNCHANGED <<send_us, send_ntp, rbuf, res, timer, sleepFor>>

ApiNext ==
    \/ start
    \/ start_again
    \/ StopIdle
    \/ StopCancel
    \/ StopCloses
    \/ StopRaises
    \/ \E t \in Tasks : RoundOpens(t)
    \/ \E t \in Tasks : RoundReuses(t)
    \/ \E t \in Tasks : SendDone(t)
    \/ \E t \in Tasks : \E orig \in Origs(t) : RecvDiscard(t, REPLY_LEN, orig)
    \/ \E t \in Tasks : \E orig \in Origs(t) : RecvAccept(t, orig, ApiSkew)

ApiSpec == Init /\ [][ApiNext]_vars

----------------------------------------------------------------------------
(* The converter on its own: mp2ntp, then ntp2mp, on inputs drawn from     *)
(* the seconds and microseconds below                                      *)

ConvSecs == {0, 1, UtcBase, 1139293695}

ConvUsecs ==
    (0 .. ConvSpan)
        \cup {FracDen * k + d : k \in 1 .. 63, d \in {0 - 1, 0, 1}}
        \cup ((MICRO - 1 - ConvSpan) .. (MICRO - 1))

ConvInit ==
    /\ EngineInit
    /\ cv_pc = "in"
    /\ cv_x \in {Us(s, u) : s \in ConvSecs, u \in ConvUsecs}
    /\ cv_ntp = ZeroStamp
    /\ cv_back = NoUs
    /\ pf_pc = "off" /\ pf_in = NoIn /\ pf_out = NoOut

ConvToWire ==
    /\ cv_pc = "in"
    /\ cv_ntp' = mp2ntp(cv_x)
    /\ cv_pc' = "wire"
    /\ UNCHANGED <<attrs, os, time, frame, life, hist, cv_x, cv_back, pf>>

ConvToLocal ==
    /\ cv_pc = "wire"
    /\ cv_back' = ntp2mp(cv_ntp)
    /\ cv_pc' = "back"
    /\ UNCHANGED <<attrs, os, time, frame, life, hist, cv_x, cv_ntp, pf>>

ConvNext == ConvToWire \/ ConvToLocal

ConvSpec == ConvInit /\ [][ConvNext]_vars

----------------------------------------------------------------------------
(* Lines 153-154 on their own: delay and step of four timestamps drawn     *)
(* from the microseconds below                                             *)

PfTimes == (0 .. PfSpan) \cup {1000, 1200, 1500, 1600}

\* A microsecond count [s, u] of small magnitude as one integer
UsInt(a) == a.s * MICRO + a.u

PfInit ==
    /\ EngineInit
    /\ cv_pc = "off" /\ cv_x = NoUs /\ cv_ntp = ZeroStamp /\ cv_back = NoUs
    /\ pf_pc = "in"
    /\ pf_in \in [send : PfTimes, recv : PfTimes, rx : PfTimes, tx : PfTimes]
    /\ pf_out = NoOut

PfCompute ==
    /\ pf_pc = "in"
    /\ LET r == DelayStep(UsOf(pf_in.send), UsOf(pf_in.recv),
                          UsOf(pf_in.rx), UsOf(pf_in.tx))
       IN  pf_out' = [delay |-> UsInt(r.delay), step |-> UsInt(r.step)]
    /\ pf_pc' = "out"
    /\ UNCHANGED <<attrs, os, time, frame, life, hist, cv, pf_in>>

PfNext == PfCompute

PfSpec == PfInit /\ [][PfNext]_vars

----------------------------------------------------------------------------
(* Properties *)

\* The transmit timestamp as it stands in the request of task t's round
SentStamp(t) == Pack(send_ntp[t])

\* The datagram task t read last carries an originate field, and it is not
\* the transmit timestamp of the request
Mismatch(t) ==
    /\ rbuf[t] # NoBuf
    /\ CanUnpack(rbuf[t].len, OFF_ORIG)
    /\ rbuf[t].orig # SentStamp(t)

\* C1: a reply is the outcome of the exchange only if its originate field is
\* bit for bit the transmit timestamp written into the request; a reply that
\* fails the test gives no (delay, step), causes no RTC write and leaves the
\* task in the receive loop, which then ends only by a timeout or an error.
C1_MatchDiscipline ==
    \A t \in Tasks :
        /\ res[t].ok => rbuf[t].orig = SentStamp(t)
        /\ Mismatch(t) =>
              /\ ~ res[t].ok
              /\ wrote[t] = 0
              /\ \/ pc[t] = "recv"
                 \/ pc[t] = "sleep" /\ outcome[t] \in {"timeout", "recv"}

C1_Witness ==
    \E t \in Tasks : pc[t] = "recv" /\ Mismatch(t) /\ waited[t] > 0 /\ timer[t] = 0

\* |o| > maxStep or |o| >= 500000
OverThreshold(o, max_step) ==
    \/ UsLess(max_step, UsAbs(o))
    \/ UsAbs(o) = UsOf(MIN_ADJUST)
    \/ UsLess(UsOf(MIN_ADJUST), UsAbs(o))

\* C2: after a matched exchange with offset o the RTC is written if and
\* only if |o| > maxStep or |o| >= 500000, and the decision for -o is the
\* decision for o.
C2_ThresholdPolicy ==
    \A t \in Tasks :
        (pc[t] = "sleep" /\ outcome[t] = "ok") =>
            /\ res[t].ok
            /\ (wrote[t] = 1) <=> OverThreshold(res[t].step, _max_step)
            /\ (wrote[t] = 0) <=> ~ OverThreshold(UsNeg(res[t].step), _max_step)

C2_Witness ==
    \E t \in Tasks :
        /\ pc[t] = "sleep" /\ outcome[t] = "ok"
        /\ _max_step = Us(1, 0)
        /\ res[t].step = UsOf(MIN_ADJUST)
        /\ wrote[t] = 1

\* C3: a round that follows three consecutive timeouts resolves the name
\* again.
C3_BackoffEscalation ==
    \A t \in Tasks :
        (pc[t] \in {"send", "recv"} /\ timeouts = ESCALATE) => resolved[t]

\* stop() has returned after the one start()
Stopped == starts = 1 /\ stopper = "idle" /\ stopRes = "returned"

\* C4: once stop() has returned for an engine started once with an open
\* session, whatever the position the poller was suspended at, the poller
\* has ended and the socket is closed; from then on no request is sent and
\* the RTC is not written.
C4_Cancellation ==
    /\ [](Stopped =>
            /\ \A t \in Tasks : pc[t] \in {"none", "dead"}
            /\ _poll_task = None
            /\ _sock # None /\ _sock \in closed)
    /\ [][Stopped =>
            /\ \A t \in Tasks : ~ (pc[t] = "send" /\ pc'[t] = "recv")
            /\ \A t \in Tasks : wrote'[t] <= wrote[t]
            /\ (tick' = tick => clock' = clock)]_vars

C4_Witness ==
    /\ Stopped
    /\ \E t \in Tasks : cancelledAt[t] = "recv"
    /\ _sock \in closed

\* C5: the round that follows a round ended by an OSError of send or
\* receive resolves the name again and opens a new socket.
C5_TransportRecovery ==
    \A t \in Tasks :
        (pc[t] \in {"send", "recv"} /\ outcome[t] \in {"send", "recv"}) =>
            resolved[t]

\* C6: a round stays in the receive loop for at most the one timeout after
\* its request was sent.
C6_ExchangeTimeout ==
    \A t \in Tasks : pc[t] = "recv" => waited[t] <= TimeoutTicks

\* C7: a datagram that is not 48 bytes long does not end the round; the
\* round never ends in the 121-second backoff because of it.
C7_MalformedReply ==
    \A t \in Tasks :
        (rbuf[t] # NoBuf /\ rbuf[t].len # REPLY_LEN) =>
            ~ (pc[t] = "sleep" /\ outcome[t] = "malformed")

\* C8: the poller ends by cancellation only: after every failure of a round
\* the task sleeps, and the end of the sleep begins another round.
C8_NeverEnds ==
    \A t \in Tasks :
        /\ pc[t] = "dead" => cancelledAt[t] # "-"
        /\ outcome[t] # "none" => pc[t] \in {"sleep", "send", "recv"}
        /\ pc[t] = "sleep" =>
              ENABLED (\/ RoundResolveFails(t) \/ RoundOpens(t)
                       \/ RoundReuses(t) \/ RoundNoSend(t))

C8_Witness ==
    \E t \in Tasks :
        pc[t] = "sleep" /\ outcome[t] = "rtc" /\ sleepFor[t] = SLEEP_ERROR

\* The sleep the claim gives for each way a round can end
CadenceOf(how) ==
    CASE how = "ok" -> SLEEP_OK
      [] how \in {"timeout", "resolve", "socket", "connect", "send", "recv"}
            -> SLEEP_RETRY
      [] OTHER -> SLEEP_ERROR

\* C9: a round is followed by a sleep of 61 seconds after a success, of 11
\* seconds after a timeout (the third in a row included) and after a
\* resolution or transport error, of 121 seconds after any other error;
\* no round goes on to the next without a sleep.
C9_BackoffCadence ==
    \A t \in Tasks :
        /\ pc[t] # "loop"
        /\ pc[t] = "sleep" => sleepFor[t] = CadenceOf(outcome[t])
        /\ (outcome[t] # "none" /\ pc[t] \in {"send", "recv"}) =>
              sleepFor[t] = CadenceOf(outcome[t])

C9_Witness ==
    \E t \in Tasks :
        /\ pc[t] = "sleep" /\ outcome[t] = "timeout"
        /\ timeouts = ESCALATE /\ sleepFor[t] = SLEEP_RETRY

\* C10: for a non-negative x in range, ntp2mp(*mp2ntp(x)) is x or x - 1
\* microsecond, and has the whole seconds of x.
C10_RoundTrip ==
    cv_pc = "back" =>
        /\ cv_back.s = cv_x.s
        /\ cv_back.u <= cv_x.u
        /\ cv_x.u - cv_back.u <= 1

C10_Witness == cv_pc = "back" /\ cv_x.u - cv_back.u = 1

\* (rx - sendLocal) + (tx - recvLocal) of the timestamps drawn
PfSum == (pf_in.rx - pf_in.send) + (pf_in.tx - pf_in.recv)

\* n / 2 rounded toward zero
TruncHalf(n) == IF n < 0 THEN 0 - ((0 - n) \div 2) ELSE n \div 2

\* C11 as stated: delay = (recvLocal - sendLocal) - (tx - rx) and offset is
\* the sum (rx - sendLocal) + (tx - recvLocal) halved with rounding toward
\* zero.
C11_OffsetTruncates ==
    pf_pc = "out" =>
        /\ pf_out.delay = (pf_in.recv - pf_in.send) - (pf_in.tx - pf_in.rx)
        /\ pf_out.step = TruncHalf(PfSum)

\* C11 as amended: delay = (recvLocal - sendLocal) - (tx - rx), and offset
\* is the floor of half the sum: 2 * offset is the sum or the sum less
\* one, for sums of either sign; (1000, 1500, 1600, 1200) gives delay 100
\* and offset 450.
C11_OffsetFloors ==
    pf_pc = "out" =>
        /\ pf_out.delay = (pf_in.recv - pf_in.send) - (pf_in.tx - pf_in.rx)
        /\ PfSum - 2 * pf_out.step \in {0, 1}
        /\ pf_in = [send |-> 1000, rx |-> 1500, tx |-> 1600, recv |-> 1200]
              => pf_out = [delay |-> 100, step |-> 450]

\* The poller tasks that have not ended
Alive == {t \in Tasks : pc[t] \in {"new", "send", "recv", "sleep", "loop"}}

\* The tasks with a request handed to the session and no outcome yet
InFlight == {t \in Tasks : pc[t] \in {"send", "recv"}}

C11_Witness ==
    /\ pf_pc = "out"
    /\ PfSum < 0 /\ PfSum % 2 = 1
    /\ pf_out.step # TruncHalf(PfSum)

\* C12: whatever the sequence of start() and stop() calls, at most one
\* poller task is alive and at most one exchange is in flight on the
\* session, and once stop() has returned no poller is alive.
C12_SingleExchange ==
    /\ Cardinality(Alive) <= 1
    /\ Cardinality(InFlight) <= 1
    /\ (stopper = "idle" /\ stopRes = "returned") => Alive = {}

\* C13: the RTC is written only by a round that has received a matching
\* reply, at most once in the round, and that round ends as a success; a
\* round that ends in a resolution failure, a timeout, a transport error or
\* an unexpected error has not written the RTC.  The device clock changes
\* only by the passage of time or by such a write.
C13_RtcWriteDiscipline ==
    /\ [](\A t \in Tasks :
            /\ wrote[t] <= 1
            /\ wrote[t] = 1 =>
                  /\ res[t].ok /\ rbuf[t].orig = SentStamp(t)
                  /\ outcome[t] = "ok"
            /\ (pc[t] = "sleep" /\ outcome[t] # "ok") => wrote[t] = 0)
    /\ [][(clock' # clock /\ tick' = tick) =>
            \E t \in Tasks :
                /\ pc[t] = "recv" /\ pc'[t] = "sleep"
                /\ outcome'[t] = "ok" /\ res'[t].ok
                /\ rbuf'[t].orig = SentStamp(t)
                /\ wrote[t] = 0 /\ wrote'[t] = 1]_vars

C13_Witness ==
    \E t \in Tasks :
        /\ pc[t] = "sleep" /\ outcome[t] = "ok" /\ wrote[t] = 1
        /\ res[t].step.s < 0
        /\ clock = UsAdd(UtcAt(tick), UsAdd(TZ_US, Us(0 - 2, 0)))

\* C14: a stop() of a started engine returns without raising and leaves no
\* poll task registered, also when no session has been opened.
C14_StopSafe ==
    /\ stopRes # "raised"
    /\ (stopper = "idle" /\ stopRes # "none") => _poll_task = None

\* C15: the bitfield the timeout handler tests (_status) holds the outcomes
\* of the latest rounds: when a round has ended, its bit 0 is 1 if and only
\* if that round succeeded.
C15_FailureHistory ==
    \A t \in Tasks :
        pc[t] = "sleep" => ((_status % 2 = 1) <=> outcome[t] = "ok")

\* C16: a timeout in a round that has a success among its two preceding
\* rounds leaves the cached session as it is, and the round after it sends
\* on the open session without resolving the name.
C16_TimeoutKeepsSession ==
    /\ [](\A t \in Tasks :
            (pc[t] \in {"send", "recv"} /\ outcome[t] = "timeout"
                 /\ sinceOk \in {1, 2}) =>
                /\ ~ resolved[t]
                /\ _sock # None /\ _send = _sock /\ _sock \notin closed)
    /\ [][\A t \in Tasks :
            (pc[t] = "recv" /\ pc'[t] # "recv" /\ outcome'[t] = "timeout"
                 /\ sinceOk <= 1) =>
                /\ session' = session
                /\ nsock' = nsock]_vars

C16_Witness ==
    \E t \in Tasks :
        /\ pc[t] = "recv" /\ outcome[t] = "timeout" /\ sinceOk = 1
        /\ ~ resolved[t] /\ _send = _sock

\* What C17 says of task t apart from the address: after a round whose
\* name resolution failed the session is cleared, the RTC is unwritten, the
\* round is not marked a success and the sleep is 11 seconds; the round
\* after it resolves again.
ResolveFailedState(t) ==
    /\ (pc[t] = "sleep" /\ outcome[t] = "resolve") =>
          /\ _sock = None
          /\ _send = None /\ _recv = None /\ _close = None
          /\ wrote[t] = 0 /\ ~ res[t].ok
          /\ status % 2 = 0
          /\ sleepFor[t] = SLEEP_RETRY
    /\ (pc[t] \in {"send", "recv"} /\ outcome[t] = "resolve") => resolved[t]

C18_Recovery ==
    <>[][Healthy]_vars =>
        []<>(\E t \in Tasks : pc[t] = "sleep" /\ outcome[t] = "ok")

\* The server's clock is exact and the reply task t accepts in this step
\* took no time: the receive and transmit fields both show the time of the
\* device clock, less the timezone, and the request was sent at this tick.
ExactZeroDelay(t) ==
    /\ sent_at[t] = tick
    /\ rbuf'[t].rx = mp2ntp(UsSub(clock, TZ_US))
    /\ rbuf'[t].tx = mp2ntp(UsSub(clock, TZ_US))

\* C19: when the round before wrote the RTC and the server is exact with no
\* network delay, the round measures the offset 0 and does not write the
\* RTC.
C19_CorrectionConverges ==
    [][\A t \in Tasks :
          (pc[t] = "recv" /\ pc'[t] = "sleep" /\ outcome'[t] = "ok"
               /\ prevWrote /\ ExactZeroDelay(t)) =>
              /\ res'[t].step = NoUs
              /\ wrote'[t] = 0]_vars

\* C20: whenever the engine holds a socket, its send, receive and close
\* capabilities are installed.
C20_SessionConsistency ==
    _sock # None => (_send # None /\ _recv # None /\ _close # None)

====
